---- MODULE Spec2Model ----
(***************************************************************************)
(* A model of Ataeru (main.go): an HTTP upload server that stores each     *)
(* uploaded file under files/, indexes it by a content key under hashes/,  *)
(* gates uploads by an access key and a size limit, and serves the stored  *)
(* files under /storage/.                                                  *)
(*                                                                         *)
(* Representation.                                                         *)
(*  - A Go string is a string; At(s, i) is its i-th character.             *)
(*  - A byte buffer is a record [data, pad]: the bytes of data (each in    *)
(*    1..255) followed by pad zero bytes.  The form is canonical (data     *)
(*    never ends in a zero byte), so two records are equal exactly when    *)
(*    the byte sequences are; it lets a buffer be megabytes long.          *)
(*  - An int64 is four 16-bit limbs, least significant first, in two's     *)
(*    complement, so that shifts wrap as they do in Go.                    *)
(***************************************************************************)
EXTENDS Integers, Sequences, FiniteSets, TLC

VARIABLES
    APP_CONFIG,   \* the global config: [Port, MaxFileSize, PublicUpload]
    keysFile,     \* the bytes of <StorageDir>/keys
    files,        \* <StorageDir>/files:  file name -> byte buffer
    hashes,       \* <StorageDir>/hashes: entry name -> entry content
    now,          \* the wall clock, Unix seconds, an int64
    log,          \* the requests handled so far, with their responses
    lastCheck,    \* the last call of isUploadKeyValid, with its result
    lastGet,      \* the last GET under /storage/, with its response
    server,       \* the process: its environment, and how far main has come
    running       \* the POST requests being handled, each with its position

vars ==
    <<APP_CONFIG, keysFile, files, hashes, now, log, lastCheck, lastGet, server, running>>

(***************************************************************************)
(* Bounds of the model.                                                    *)
(***************************************************************************)
MaxRequests == 3     \* POST requests in one behaviour
MaxTicks == 1        \* seconds the clock advances in one behaviour
MaxKeysLen == 3      \* bytes in the keys file
MaxRacers == 2       \* POST requests handled concurrently in one behaviour

(***************************************************************************)
(* Characters and strings.                                                 *)
(***************************************************************************)
LF == "\n"
CR == "\r"
Slash == "/"
Dot == "."

At(s, i) == SubSeq(s, i, i)

\* the strings of at most n characters of the set chars
RECURSIVE Strings(_, _)
Strings(chars, n) ==
    IF n = 0 THEN {""}
    ELSE LET shorter == Strings(chars, n - 1)
         IN  shorter \cup {s \o c : s \in shorter, c \in chars}

HasPrefix(s, p) == Len(s) >= Len(p) /\ SubSeq(s, 1, Len(p)) = p

HasSuffix(s, p) == Len(s) >= Len(p) /\ SubSeq(s, Len(s) - Len(p) + 1, Len(s)) = p

TrimPrefix(s, p) == IF HasPrefix(s, p) THEN SubSeq(s, Len(p) + 1, Len(s)) ELSE s

(***************************************************************************)
(* int64: four 16-bit limbs, least significant first.                      *)
(***************************************************************************)
Limb == 65536

Int64FromNat(n) == <<n % Limb, (n \div Limb) % Limb, 0, 0>>

\* x << r for r < 15, within the limbs
ShlBits(x, r) ==
    [i \in 1..4 |-> ((x[i] * (2 ^ r)) % Limb)
                    + (IF i > 1 THEN (x[i - 1] * (2 ^ r)) \div Limb ELSE 0)]

\* x << (16 * q): the limbs move up, the top ones are lost
ShlLimbs(x, q) == [i \in 1..4 |-> IF i > q THEN x[i - q] ELSE 0]

\* Go's x << k on an int64
Shl(x, k) == ShlLimbs(ShlBits(x, k % 16), k \div 16)

IsNegative(x) == x[4] >= Limb \div 2

\* the unsigned order of the limbs, most significant first
UGreater(x, y) ==
    \E i \in 1..4 : x[i] > y[i] /\ \A j \in (i + 1)..4 : x[j] = y[j]

\* Go's x > y on int64
Greater(x, y) ==
    IF IsNegative(x) # IsNegative(y) THEN IsNegative(y) ELSE UGreater(x, y)

\* x + 1 on an int64
Inc(x) ==
    LET c1 == x[1] = Limb - 1
        c2 == c1 /\ x[2] = Limb - 1
        c3 == c2 /\ x[3] = Limb - 1
    IN  << (x[1] + 1) % Limb,
           IF c1 THEN (x[2] + 1) % Limb ELSE x[2],
           IF c2 THEN (x[3] + 1) % Limb ELSE x[3],
           IF c3 THEN (x[4] + 1) % Limb ELSE x[4] >>

(***************************************************************************)
(* Byte buffers.                                                           *)
(***************************************************************************)
Size(buf) == Len(buf.data) + buf.pad

ByteAt(buf, i) == IF i <= Len(buf.data) THEN buf.data[i] ELSE 0

(***************************************************************************)
(* Configuration (initializeEnv with the defaults of the const block).     *)
(***************************************************************************)
ATAERU_PORT == "5605"

ATAERU_MAX_FILE_SIZE == 2

\* filepath.Join(APP_CONFIG.StorageDir, "/files") for the default "./store"
FilesDir == "store/files"

mbToBytes(mb) == Shl(mb, 20)

(***************************************************************************)
(* Paths.  Every path the handler builds is a directory joined with a      *)
(* name that holds no separator, so filepath.Clean changes nothing in it.  *)
(***************************************************************************)
Max(S) == CHOOSE m \in S : \A x \in S : x <= m

Min(S) == CHOOSE m \in S : \A x \in S : m <= x

\* filepath.Join(dir, name): an empty element is dropped
Join(dir, name) == IF name = "" THEN dir ELSE dir \o Slash \o name

\* filepath.Base: trailing separators stripped, then what follows the last one
Base(path) ==
    LET ends == {i \in 1..Len(path) : At(path, i) # Slash}
        e == IF ends = {} THEN 0 ELSE Max(ends)
        seps == {i \in 1..e : At(path, i) = Slash}
        b == IF seps = {} THEN 1 ELSE Max(seps) + 1
    IN  IF path = "" THEN Dot
        ELSE IF e = 0 THEN Slash
        ELSE SubSeq(path, b, e)

\* filepath.Ext: from the last dot of the last element, or empty
Ext(path) ==
    LET dots == {i \in 1..Len(path) :
                    At(path, i) = Dot /\ \A j \in i..Len(path) : At(path, j) # Slash}
    IN  IF dots = {} THEN "" ELSE SubSeq(path, Max(dots), Len(path))

(***************************************************************************)
(* getBufferFileHash.  md5.New().Sum(b) appends the digest of what was     *)
(* written to the hash (nothing) to b; the first 16 bytes of the result    *)
(* are hex-encoded.                                                        *)
(***************************************************************************)
DigestSize == 16

\* the MD5 digest of the empty input, d41d8cd98f00b204e9800998ecf8427e
MD5Empty == <<212, 29, 140, 217, 143, 0, 178, 4, 233, 128, 9, 152, 236, 248, 66, 126>>

HexDigit(n) == At("0123456789abcdef", n + 1)

\* hex.EncodeToString
RECURSIVE EncodeToString(_)
EncodeToString(bytes) ==
    IF bytes = <<>> THEN ""
    ELSE HexDigit(Head(bytes) \div 16) \o HexDigit(Head(bytes) % 16)
         \o EncodeToString(Tail(bytes))

\* hash.Sum(*buf)[:16], hash being fresh
SumPrefix(buf) ==
    [i \in 1..DigestSize |->
        IF i <= Size(buf) THEN ByteAt(buf, i) ELSE MD5Empty[i - Size(buf)]]

getBufferFileHash(buf) == EncodeToString(SumPrefix(buf))

(***************************************************************************)
(* The ID of an upload: hashids' Encode of int(time.Now().Unix() << 32).   *)
(* Encode fails on a negative number; otherwise it is an injective map     *)
(* to alphanumeric strings of at least six characters, which is all the   *)
(* handler relies on: here the 16 hex digits of the number.                *)
(***************************************************************************)
Stamp(t) == Shl(t, 32)

EncodeOk(stamp) == ~IsNegative(stamp)

Encode(stamp) ==
    EncodeToString(<<stamp[4] \div 256, stamp[4] % 256, stamp[3] \div 256, stamp[3] % 256,
                     stamp[2] \div 256, stamp[2] % 256, stamp[1] \div 256, stamp[1] % 256>>)

(***************************************************************************)
(* isUploadKeyValid.  bufio.Scanner with its default split function,       *)
(* ScanLines: a token ends at a line feed, or at the end of the data, and  *)
(* one trailing carriage return is dropped from it.  After a read error    *)
(* the scanner still hands out what it holds as a last token.              *)
(***************************************************************************)
dropCR(data) ==
    IF Len(data) > 0 /\ At(data, Len(data)) = CR
    THEN SubSeq(data, 1, Len(data) - 1)
    ELSE data

\* bufio.ScanLines at the end of the input: [found, advance, token]
ScanLines(data) ==
    LET nl == {i \in 1..Len(data) : At(data, i) = LF}
    IN  IF Len(data) = 0
        THEN [found |-> FALSE, advance |-> 0, token |-> ""]
        ELSE IF nl # {}
        THEN [found |-> TRUE, advance |-> Min(nl),
              token |-> dropCR(SubSeq(data, 1, Min(nl) - 1))]
        ELSE [found |-> TRUE, advance |-> Len(data), token |-> dropCR(data)]

\* KeyMatch with the flag assigned the comparison: the last line decides
KeyMatch_LastLine(key, text, validKey) == key = text

\* one iteration of `for scanner.Scan() { ... }`: the flag after the token
KeyMatch(key, text, validKey) == IF key = text THEN TRUE ELSE validKey

RECURSIVE ScanLoop(_, _, _)
ScanLoop(data, key, validKey) ==
    LET s == ScanLines(data)
    IN  IF ~s.found THEN validKey
        ELSE ScanLoop(SubSeq(data, s.advance + 1, Len(data)), key,
                      KeyMatch(key, s.token, validKey))

(***************************************************************************)
(* Failures of the file system, chosen per request.                        *)
(*   keys:      "ok" | "open" (os.Open fails) | "read" (a read fails after *)
(*              keysRead bytes)                                            *)
(*   body:      "ok" | "err" (ioutil.ReadAll fails)                        *)
(*   hashRead:  "ok" | "err" (ioutil.ReadFile fails, nothing read)         *)
(*   hashWrite, fileWrite: "ok" | "open" (the file is not opened: nothing  *)
(*              changes) | "trunc" (it is created or truncated, and the    *)
(*              write fails)                                               *)
(***************************************************************************)
NoFault ==
    [keys |-> "ok", keysRead |-> 0, body |-> "ok", hashRead |-> "ok",
     hashWrite |-> "ok", fileWrite |-> "ok"]

\* what the scanner gets to see of the keys file
KeysData(fault) ==
    IF fault.keys = "read"
    THEN SubSeq(keysFile, 1, Min({fault.keysRead, Len(keysFile)}))
    ELSE keysFile

isUploadKeyValid(key, fault) ==
    IF fault.keys = "open" THEN FALSE
    ELSE ScanLoop(KeysData(fault), key, FALSE)

(***************************************************************************)
(* Responses.                                                              *)
(***************************************************************************)
StoragePrefix == "/storage/"

MsgNoKey == "Public uploading is currently disabled, go away\n"

MsgBadKey == "Incorrect key, sorry gotta go!\n"

\* fmt.Sprintf("http://localhost:%s/storage/%s\n", Port, filepath.Base(filePath))
StorageURL(filePath) ==
    [kind |-> "url",
     body |-> "http://localhost:" \o APP_CONFIG.Port \o "/storage/"
              \o Base(filePath) \o LF]

Rejection(msg) == [kind |-> "rejected", body |-> msg]

\* %d of an int64: decimal where the model's integers reach, hex beyond
FormatInt64(x) ==
    IF x[4] = 0 /\ x[3] = 0 /\ x[2] < Limb \div 2
    THEN ToString(x[1] + (x[2] * Limb))
    ELSE "0x" \o EncodeToString(<<x[4] \div 256, x[4] % 256, x[3] \div 256, x[3] % 256,
                                   x[2] \div 256, x[2] % 256, x[1] \div 256, x[1] % 256>>)

\* the size message: the limit in MB and handler.Size >> 20
TooBig(size) ==
    [kind |-> "toobig",
     body |-> "The maximum file size is currently "
              \o FormatInt64(APP_CONFIG.MaxFileSize) \o "MB, you uploaded a "
              \o ToString(size \div (2 ^ 20)) \o "MB file...\n"]

\* the handler returned without writing to the response
NoResponse == [kind |-> "none", body |-> ""]

\* the handler panicked; net/http recovers and drops the connection
Panicked == [kind |-> "panic", body |-> ""]

(***************************************************************************)
(* ioutil.WriteFile and ioutil.ReadFile on a directory, a function from    *)
(* names to contents.                                                      *)
(***************************************************************************)
EmptyBuf == [data |-> <<>>, pad |-> 0]

Put(dir, name, content) ==
    [n \in DOMAIN dir \cup {name} |-> IF n = name THEN content ELSE dir[n]]

WriteFile(dir, name, content, mode, empty) ==
    CASE mode = "ok" -> Put(dir, name, content)
      [] mode = "trunc" -> Put(dir, name, empty)
      [] OTHER -> dir

\* ReadFile that returns nothing: the entry is not used
ReadFile_Empty(dir, name, mode) == ""

ReadFile(dir, name, mode) == IF mode = "ok" THEN dir[name] ELSE ""

(***************************************************************************)
(* uploadHandler, as a function of the request and of the failures the     *)
(* file system has in store for it: the response, the two directories      *)
(* after it, and the steps it went through, in order.                      *)
(***************************************************************************)
Outcome(resp, f, h, steps) == [resp |-> resp, files |-> f, hashes |-> h, steps |-> steps]

\* KeyGate without the validity check: only a missing key is turned away
KeyGate_OnlyMissing(req, fault) ==
    IF APP_CONFIG.PublicUpload = FALSE /\ req.key = "" THEN MsgNoKey ELSE "pass"

\* the key gate: the rejection, or "pass"
KeyGate(req, fault) ==
    IF APP_CONFIG.PublicUpload = FALSE
    THEN IF req.key = "" THEN MsgNoKey
         ELSE IF isUploadKeyValid(req.key, fault) # TRUE THEN MsgBadKey
         ELSE "pass"
    ELSE "pass"

\* SizeGate that lets every size through
SizeGate_Never(size, byteMaxSize) == FALSE

\* handler.Size > byteMaxSize
SizeGate(size, byteMaxSize) == Greater(Int64FromNat(size), byteMaxSize)

\* lines 213-246: the dedup/store step and the response
StoreStep(req, fault, done) ==
    LET buf == req.body
        id == Encode(Stamp(now))
        uploadedFilename == id \o Ext(req.filename)
        filePath == Join(FilesDir, uploadedFilename)
        hash == getBufferFileHash(buf)
    IN  IF hash \in DOMAIN hashes
        THEN LET hashFilename == ReadFile(hashes, hash, fault.hashRead)
             IN  Outcome(StorageURL(Join(FilesDir, hashFilename)), files, hashes,
                         done \o <<"statHash", "readHash", "respond">>)
        ELSE LET h == WriteFile(hashes, hash, uploadedFilename \o LF,
                                fault.hashWrite, "")
                 f == WriteFile(files, Base(filePath), buf, fault.fileWrite, EmptyBuf)
             IN  IF fault.fileWrite # "ok"
                 THEN Outcome(NoResponse, f, h,
                              done \o <<"statHash", "writeHash", "writeFile">>)
                 ELSE Outcome(StorageURL(filePath), f, h,
                              done \o <<"statHash", "writeHash", "writeFile", "respond">>)

uploadHandler(req, fault) ==
    LET byteMaxSize == mbToBytes(APP_CONFIG.MaxFileSize)
        gate == KeyGate(req, fault)
        keyed == IF APP_CONFIG.PublicUpload = FALSE THEN <<"keyCheck">> ELSE <<>>
        same(resp, steps) == Outcome(resp, files, hashes, steps)
    IN  IF gate # "pass" THEN same(Rejection(gate), keyed \o <<"respond">>)
        ELSE IF ~req.hasFile THEN same(Panicked, keyed \o <<"formFile">>)
        ELSE IF SizeGate(Size(req.body), byteMaxSize)
        THEN same(TooBig(Size(req.body)), keyed \o <<"formFile", "sizeCheck", "respond">>)
        ELSE IF ~EncodeOk(Stamp(now))
        THEN same(NoResponse, keyed \o <<"formFile", "sizeCheck", "newID">>)
        ELSE IF fault.body # "ok"
        THEN same(NoResponse, keyed \o <<"formFile", "sizeCheck", "newID", "readBody">>)
        ELSE StoreStep(req, fault,
                       keyed \o <<"formFile", "sizeCheck", "newID", "readBody">>)

(***************************************************************************)
(* GET.  The mux hands a path under /storage/ to                           *)
(* StripPrefix("/storage/", disableDirListing(FileServer(files))).         *)
(***************************************************************************)
NotFound == [kind |-> "notfound", served |-> FALSE]

\* http.FileServer on files/: the root is a directory, which it lists (no
\* file is named index.html); any other path names a file or nothing
FileServer(path) ==
    LET upath == IF HasPrefix(path, Slash) THEN path ELSE Slash \o path
        name == SubSeq(upath, 2, Len(upath))
    IN  IF upath = Slash
        THEN [kind |-> "listing", served |-> TRUE, names |-> DOMAIN files]
        ELSE IF name \in DOMAIN files
        THEN [kind |-> "file", served |-> TRUE, bytes |-> files[name]]
        ELSE [kind |-> "notfound", served |-> TRUE]

disableDirListing(path) ==
    IF HasSuffix(path, Slash) THEN NotFound ELSE FileServer(path)

StripPrefix(prefix, path) ==
    LET p == TrimPrefix(path, prefix)
    IN  IF Len(p) < Len(path) THEN disableDirListing(p) ELSE NotFound

\* the answer to GET path, for a path the mux routes to /storage/
ServeStorage(path) == StripPrefix(StoragePrefix, path)

(***************************************************************************)
(* Inputs.                                                                 *)
(***************************************************************************)
\* time.Now().Unix() when the server starts
StartTime == Int64FromNat(1700000000)

RECURSIVE IncN(_, _)
IncN(t, n) == IF n = 0 THEN t ELSE IncN(Inc(t), n - 1)

\* client file names: extension ".t", and none
Filenames == {"a.t", "b"}

\* 1 byte; 16 bytes; 17 bytes that start with the same 16
StoreBuffers ==
    {[data |-> <<97>>, pad |-> 0], [data |-> <<98>>, pad |-> 15],
     [data |-> <<98>>, pad |-> 16]}

\* the default limit in bytes, and buffers just below, at and above it
DefaultLimit == ATAERU_MAX_FILE_SIZE * (2 ^ 20)

GateBuffers ==
    {[data |-> <<>>, pad |-> DefaultLimit - 1], [data |-> <<>>, pad |-> DefaultLimit],
     [data |-> <<97>>, pad |-> DefaultLimit]}

PublicRequests(bufs) ==
    {[key |-> "", hasFile |-> TRUE, filename |-> f, body |-> b] :
        f \in Filenames, b \in bufs}

\* the config initializeEnv returns for a size and a flag
Config(maxFileSize, publicUpload) ==
    [Port |-> ATAERU_PORT, MaxFileSize |-> maxFileSize, PublicUpload |-> publicUpload]

\* a POST without a file field
NoFileRequest(key) == [key |-> key, hasFile |-> FALSE, filename |-> "", body |-> EmptyBuf]

\* submitted keys: none, one the keys file may hold, one it never holds
GateKeys == {"", "k", "x"}

\* uploads with a key: a file within the limit, and one above it
GateRequests ==
    {[key |-> k, hasFile |-> TRUE, filename |-> "a.t", body |-> b] :
        k \in GateKeys,
        b \in {[data |-> <<97>>, pad |-> 0], [data |-> <<97>>, pad |-> DefaultLimit]}}

\* contents of the keys file: empty as created, and with the key "k"
GateKeysFiles == {"", "y\r\nk\n"}

\* uploads of files around the limit, and one without a file
SizeRequests == PublicRequests(GateBuffers) \cup {NoFileRequest("")}

\* math.MaxInt64, a limit an operator may set to mean "none"
MaxInt64 == <<Limb - 1, Limb - 1, Limb - 1, (Limb \div 2) - 1>>

SizeMaxFileSizes == {Int64FromNat(ATAERU_MAX_FILE_SIZE), Int64FromNat(1), MaxInt64}

\* the characters of the keys file, and the keys looked up in it
KeyChars == {"k", CR, LF}

CheckedKeys == {"", "k", CR, LF, "kk", "k\r"}

\* the keys file after the operator adds or removes a character at its end
KeysEdits ==
    {keysFile \o c : c \in IF Len(keysFile) < MaxKeysLen THEN KeyChars ELSE {}}
    \cup (IF keysFile = "" THEN {} ELSE {SubSeq(keysFile, 1, Len(keysFile) - 1)})

\* one failure in the dedup/store step, or none
StoreFaults ==
    {NoFault,
     [NoFault EXCEPT !.hashRead = "err"],
     [NoFault EXCEPT !.hashWrite = "open"],
     [NoFault EXCEPT !.hashWrite = "trunc"],
     [NoFault EXCEPT !.fileWrite = "open"],
     [NoFault EXCEPT !.fileWrite = "trunc"],
     [NoFault EXCEPT !.body = "err"]}

FaultRequests ==
    {[key |-> "", hasFile |-> TRUE, filename |-> "a.t", body |-> b] :
        b \in {[data |-> <<97>>, pad |-> 0], [data |-> <<98>>, pad |-> 15]}}

\* a failure of the keys file: it cannot be opened, or a read fails after n bytes
KeysFaults ==
    {NoFault, [NoFault EXCEPT !.keys = "open"]}
    \cup {[NoFault EXCEPT !.keys = "read", !.keysRead = n] : n \in 0..Len(keysFile)}

NoWas == [called |-> FALSE, key |-> "", result |-> FALSE]

NoCheck == [called |-> FALSE, key |-> "", fault |-> NoFault, result |-> FALSE, was |-> NoWas]

NoGet == [called |-> FALSE]

(***************************************************************************)
(* Startup: strconv.ParseInt(s, 10, 64), strconv.ParseBool, initializeEnv.  *)
(* An error is "" (nil), "syntax" or "range", or "mkdir" for a directory   *)
(* that cannot be created.                                                 *)
(***************************************************************************)
Digits == "0123456789"

IsDigit(c) == \E d \in 1..Len(Digits) : At(Digits, d) = c

DigitVal(c) == (CHOOSE d \in 1..Len(Digits) : At(Digits, d) = c) - 1

Zero64 == <<0, 0, 0, 0>>

MaxUint64 == <<Limb - 1, Limb - 1, Limb - 1, Limb - 1>>

MinInt64 == <<0, 0, 0, Limb \div 2>>

\* x * 10 + d on a uint64, and whether it overflows
MulAdd10(x, d) ==
    LET t1 == (x[1] * 10) + d
        t2 == (x[2] * 10) + (t1 \div Limb)
        t3 == (x[3] * 10) + (t2 \div Limb)
        t4 == (x[4] * 10) + (t3 \div Limb)
    IN  [value |-> <<t1 % Limb, t2 % Limb, t3 % Limb, t4 % Limb>>,
         over |-> t4 >= Limb]

\* the loop of strconv.ParseUint over the characters of s, from the left
RECURSIVE ParseDigits(_, _)
ParseDigits(s, acc) ==
    IF s = "" THEN [value |-> acc, err |-> ""]
    ELSE IF ~IsDigit(Head(s)) THEN [value |-> Zero64, err |-> "syntax"]
    ELSE LET n == MulAdd10(acc, DigitVal(Head(s)))
         IN  IF n.over THEN [value |-> MaxUint64, err |-> "range"]
             ELSE ParseDigits(Tail(s), n.value)

ParseUint(s) ==
    IF s = "" THEN [value |-> Zero64, err |-> "syntax"] ELSE ParseDigits(s, Zero64)

\* -x on an int64
Neg(x) == Inc([i \in 1..4 |-> (Limb - 1) - x[i]])

ParseInt(s) ==
    LET neg == HasPrefix(s, "-")
        rest == IF HasPrefix(s, "+") \/ neg THEN Tail(s) ELSE s
        un == ParseUint(rest)
    IN  IF s = "" \/ un.err = "syntax" THEN [value |-> Zero64, err |-> "syntax"]
        ELSE IF ~neg /\ IsNegative(un.value) THEN [value |-> MaxInt64, err |-> "range"]
        ELSE IF neg /\ IsNegative(un.value) /\ un.value # MinInt64
        THEN [value |-> MinInt64, err |-> "range"]
        ELSE [value |-> IF neg THEN Neg(un.value) ELSE un.value, err |-> ""]

ParseBool(str) ==
    IF str \in {"1", "t", "T", "TRUE", "true", "True"} THEN [value |-> TRUE, err |-> ""]
    ELSE IF str \in {"0", "f", "F", "FALSE", "false", "False"}
    THEN [value |-> FALSE, err |-> ""]
    ELSE [value |-> FALSE, err |-> "syntax"]

\* the zero value of config
ZeroConfig == [Port |-> "", MaxFileSize |-> Zero64, PublicUpload |-> FALSE]

\* the environment: ATAERU_MAX_FILE_SIZE, ATAERU_PUBLIC_UPLOAD, and whether
\* the storage directory is there ("exists"), can be created ("create") or
\* cannot ("fail")
Env(size, flag, dirs) == [size |-> size, flag |-> flag, dirs |-> dirs]

\* initializeEnv: err is assigned by ParseInt and then again by ParseBool,
\* and looked at once, after both
initializeEnv(env) ==
    LET maxFileSizeConv == ParseInt(env.size)
        publicUploadConv == ParseBool(env.flag)
        err == publicUploadConv.err
    IN  IF env.dirs = "fail" THEN [conf |-> ZeroConfig, err |-> "mkdir"]
        ELSE IF err # "" THEN [conf |-> ZeroConfig, err |-> err]
        ELSE [conf |-> Config(maxFileSizeConv.value, publicUploadConv.value), err |-> ""]

\* the process before main runs, after log.Fatalln, and while it serves
NotStarted == [state |-> "off", env |-> Env("", "", "exists"), err |-> ""]

Fatal(env, err) == [state |-> "fatal", env |-> env, err |-> err]

Serving(env) == [state |-> "serving", env |-> env, err |-> ""]

\* the environments of the servers below: the defaults, public upload
\* disabled, and other size limits
ServerEnvs ==
    {Env("2", "true", "create"), Env("2", "false", "create"),
     Env("1", "true", "create"), Env("9223372036854775807", "true", "create")}

\* values of ATAERU_MAX_FILE_SIZE: integers, and strings that are none or
\* are out of range
EnvSizes == {"2", "+1", "-1", "", "x", "2x", "9223372036854775808", "18446744073709551616"}

\* values of ATAERU_PUBLIC_UPLOAD: booleans, and strings that are none
EnvFlags == {"true", "false", "1", "F", "yes", ""}

StartEnvs ==
    {Env(sz, fl, d) : sz \in EnvSizes, fl \in EnvFlags, d \in {"exists", "create"}}
    \cup {Env("2", "true", "fail")}

(***************************************************************************)
(* Actions.                                                                *)
(***************************************************************************)
\* POST /: indexHandler passes the request to uploadHandler
Upload(requests, faults) ==
    /\ Len(log) < MaxRequests
    /\ \E req \in requests, fault \in faults :
          LET out == uploadHandler(req, fault)
          IN  /\ files' = out.files
              /\ hashes' = out.hashes
              /\ log' = Append(log,
                     [req |-> req, t |-> now, fault |-> fault, resp |-> out.resp,
                      steps |-> out.steps,
                      had |-> \E n \in DOMAIN files : files[n] = req.body])
    /\ UNCHANGED <<APP_CONFIG, keysFile, now, lastCheck, lastGet, server, running>>

\* the wall clock advances by a second
Tick ==
    /\ \E i \in 0..(MaxTicks - 1) : now = IncN(StartTime, i)
    /\ now' = Inc(now)
    /\ UNCHANGED <<APP_CONFIG, keysFile, files, hashes, log, lastCheck, lastGet, server, running>>

\* GET of a path under /storage/
Get(paths) ==
    /\ \E path \in paths :
          lastGet' = [called |-> TRUE, path |-> path, resp |-> ServeStorage(path)]
    /\ UNCHANGED <<APP_CONFIG, keysFile, files, hashes, now, log, lastCheck, server, running>>

\* a call of isUploadKeyValid.  lastCheck is the last call made since the keys
\* file was last edited; was is the last call made before that edit
CheckKey(keys, faults) ==
    /\ \E key \in keys, fault \in faults :
          lastCheck' = [called |-> TRUE, key |-> key, fault |-> fault,
                        result |-> isUploadKeyValid(key, fault),
                        was |-> lastCheck.was]
    /\ UNCHANGED <<APP_CONFIG, keysFile, files, hashes, now, log, lastGet, server, running>>

\* the operator edits the keys file
EditKeys(contents) ==
    /\ \E c \in contents : keysFile' = c
    /\ keysFile' # keysFile
    /\ lastCheck' =
          [NoCheck EXCEPT !.was =
              IF lastCheck.called /\ lastCheck.fault = NoFault
              THEN [called |-> TRUE, key |-> lastCheck.key, result |-> lastCheck.result]
              ELSE lastCheck.was]
    /\ UNCHANGED <<APP_CONFIG, files, hashes, now, log, lastGet, server, running>>

\* main: initializeEnv, then log.Fatalln on an error, or the config is
\* published and the server listens.  A storage directory that is created
\* starts with files/, hashes/ and the keys file empty
Start(envs) ==
    /\ server.state = "off"
    /\ \E env \in envs :
          LET r == initializeEnv(env)
          IN  IF r.err # ""
              THEN server' = Fatal(env, r.err) /\ APP_CONFIG' = APP_CONFIG
              ELSE server' = Serving(env) /\ APP_CONFIG' = r.conf
    /\ UNCHANGED <<keysFile, files, hashes, now, log, lastCheck, lastGet, running>>

\* a POST to a process that serves
Post(requests) ==
    /\ server.state = "serving"
    /\ Upload(requests, {NoFault})

\* the paths a client asks for: the directory, each stored file, and each
\* stored file's name with a trailing separator
StoragePaths ==
    {StoragePrefix}
    \cup {StoragePrefix \o n : n \in DOMAIN files}
    \cup {StoragePrefix \o n \o Slash : n \in DOMAIN files}

(***************************************************************************)
(* The server with public upload and a file system that does not fail.     *)
(***************************************************************************)
Init ==
    /\ APP_CONFIG = Config(Int64FromNat(ATAERU_MAX_FILE_SIZE), TRUE)
    /\ keysFile = ""
    /\ files = <<>>
    /\ hashes = <<>>
    /\ now = StartTime
    /\ log = <<>>
    /\ lastCheck = NoCheck
    /\ lastGet = NoGet
    /\ server \in {Serving(e) : e \in ServerEnvs}
    /\ initializeEnv(server.env).conf = APP_CONFIG
    /\ running = <<>>

Next ==
    \/ Upload(PublicRequests(StoreBuffers), {NoFault})
    \/ Tick
    \/ Get(StoragePaths)

Spec == Init /\ [][Next]_vars

\* the same server, its uploads alone
NextStore ==
    \/ Upload(PublicRequests(StoreBuffers), {NoFault})
    \/ Tick

SpecStore == Init /\ [][NextStore]_vars

(***************************************************************************)
(* The server with public upload disabled and a keys file the operator     *)
(* edits.                                                                  *)
(***************************************************************************)
InitGate ==
    /\ APP_CONFIG = Config(Int64FromNat(ATAERU_MAX_FILE_SIZE), FALSE)
    /\ keysFile \in GateKeysFiles
    /\ files = <<>>
    /\ hashes = <<>>
    /\ now = StartTime
    /\ log = <<>>
    /\ lastCheck = NoCheck
    /\ lastGet = NoGet
    /\ server \in {Serving(e) : e \in ServerEnvs}
    /\ initializeEnv(server.env).conf = APP_CONFIG
    /\ running = <<>>

NextGate ==
    \/ Upload(GateRequests, {NoFault})
    \/ EditKeys(GateKeysFiles)
    \/ Tick

SpecGate == InitGate /\ [][NextGate]_vars

(***************************************************************************)
(* The server with public upload, under each size limit.                   *)
(***************************************************************************)
InitSize ==
    /\ APP_CONFIG \in {Config(m, TRUE) : m \in SizeMaxFileSizes}
    /\ keysFile = ""
    /\ files = <<>>
    /\ hashes = <<>>
    /\ now = StartTime
    /\ log = <<>>
    /\ lastCheck = NoCheck
    /\ lastGet = NoGet
    /\ server \in {Serving(e) : e \in ServerEnvs}
    /\ initializeEnv(server.env).conf = APP_CONFIG
    /\ running = <<>>

NextSize ==
    \/ Upload(SizeRequests, {NoFault})
    \/ Tick

SpecSize == InitSize /\ [][NextSize]_vars

(***************************************************************************)
(* The server with public upload and a file system that may fail in the    *)
(* dedup/store step.                                                       *)
(***************************************************************************)
NextFault ==
    \/ Upload(FaultRequests, StoreFaults)
    \/ Tick

SpecFault == Init /\ [][NextFault]_vars

(***************************************************************************)
(* isUploadKeyValid on every keys file and key, the keys file failing or   *)
(* not.                                                                    *)
(***************************************************************************)
InitKeys ==
    /\ APP_CONFIG = Config(Int64FromNat(ATAERU_MAX_FILE_SIZE), FALSE)
    /\ keysFile \in Strings(KeyChars, MaxKeysLen)
    /\ files = <<>>
    /\ hashes = <<>>
    /\ now = StartTime
    /\ log = <<>>
    /\ lastCheck = NoCheck
    /\ lastGet = NoGet
    /\ server \in {Serving(e) : e \in ServerEnvs}
    /\ initializeEnv(server.env).conf = APP_CONFIG
    /\ running = <<>>

NextKeys ==
    \/ CheckKey(CheckedKeys, KeysFaults)
    \/ EditKeys(KeysEdits)

SpecKeys == InitKeys /\ [][NextKeys]_vars

(***************************************************************************)
(* The process from its start, under each environment.                     *)
(***************************************************************************)
\* uploads with and without a key, of a small file and of one of 3 MB
EnvRequests ==
    {[key |-> k, hasFile |-> TRUE, filename |-> "a.t", body |-> b] :
        k \in {"", "k"},
        b \in {[data |-> <<97>>, pad |-> 0], [data |-> <<>>, pad |-> 3 * (2 ^ 20)]}}

InitEnv ==
    /\ APP_CONFIG = ZeroConfig
    /\ keysFile = ""
    /\ files = <<>>
    /\ hashes = <<>>
    /\ now = StartTime
    /\ log = <<>>
    /\ lastCheck = NoCheck
    /\ lastGet = NoGet
    /\ server = NotStarted
    /\ running = <<>>

NextEnv ==
    \/ Start(StartEnvs)
    \/ Post(EnvRequests)

SpecEnv == InitEnv /\ [][NextEnv]_vars

\* the handler went through the step
Did(e, step) == \E k \in 1..Len(e.steps) : e.steps[k] = step

\* where in its run the handler went through the step
Pos(e, step) == Min({k \in 1..Len(e.steps) : e.steps[k] = step})

(***************************************************************************)
(* Concurrent requests.  net/http runs each request in its own goroutine   *)
(* and the handler takes no lock, so the steps of uploadHandler on the     *)
(* store interleave: os.Stat, ioutil.ReadFile, and the two halves of each  *)
(* ioutil.WriteFile (the open that creates or truncates, and the write at  *)
(* offset 0).  What comes before (lines 155-219) works on the request      *)
(* alone and is one step.  A request in flight is a record                 *)
(* [req, t, pc, path, steps, had]: t is the second its ID was made in,     *)
(* path the filePath it will answer with.                                  *)
(***************************************************************************)
\* a write of new at offset 0 of a file that holds old
Overlay(old, new) == new \o SubSeq(old, Len(new) + 1, Len(old))

OverlayBuf(old, new) ==
    LET byte(i) == IF i <= Size(new) THEN ByteAt(new, i) ELSE ByteAt(old, i)
        nz == {i \in 1..Max({Len(old.data), Len(new.data)}) : byte(i) # 0}
        d == IF nz = {} THEN 0 ELSE Max(nz)
    IN  [data |-> [i \in 1..d |-> byte(i)], pad |-> Max({Size(old), Size(new)}) - d]

\* the stored name is the name by the content's key: one name per content
uploadedFilename_ByKey(r) == getBufferFileHash(r.req.body)

\* line 214: id + filepath.Ext(handler.Filename)
uploadedFilename(r) == Encode(Stamp(r.t)) \o Ext(r.req.filename)

\* line 218: the name of the entry under hashes/
hashOf(r) == getBufferFileHash(r.req.body)

\* the request i with its position and what it did updated
Moved(i, pc, path, step) ==
    [running EXCEPT ![i] = [@ EXCEPT !.pc = pc, !.path = path,
                                     !.steps = @ \o step]]

\* concurrent uploads: one content, stored with and without an extension
RaceRequests ==
    {[key |-> "", hasFile |-> TRUE, filename |-> f, body |-> [data |-> <<97>>, pad |-> 0]] :
        f \in Filenames}

\* lines 155-219: the gates, the ID, the body.  A request the gates turn
\* away, or that fails before the store, ends here
Begin(requests) ==
    /\ Cardinality(DOMAIN running) + Len(log) < MaxRacers
    /\ \E req \in requests :
          LET out == uploadHandler(req, NoFault)
              had == \E n \in DOMAIN files : files[n] = req.body
              i == Min((1..MaxRacers) \ DOMAIN running)
              r == [req |-> req, t |-> now, pc |-> "stat", path |-> "", had |-> had,
                    steps |-> SubSeq(out.steps, 1, Pos(out, "statHash") - 1)]
          IN  IF ~Did(out, "statHash")
              THEN /\ log' = Append(log, [req |-> req, t |-> now, fault |-> NoFault,
                                          resp |-> out.resp, steps |-> out.steps,
                                          had |-> had])
                   /\ running' = running
              ELSE /\ running' = [j \in DOMAIN running \cup {i} |->
                                     IF j = i THEN r ELSE running[j]]
                   /\ log' = log
    /\ UNCHANGED <<APP_CONFIG, keysFile, files, hashes, now, lastCheck, lastGet, server>>

\* line 221: os.Stat(hashPath)
Stat(i) ==
    /\ running[i].pc = "stat"
    /\ running' = Moved(i, IF hashOf(running[i]) \in DOMAIN hashes
                           THEN "readHash" ELSE "createHash", "", <<"statHash">>)
    /\ UNCHANGED <<APP_CONFIG, keysFile, files, hashes, now, log, lastCheck, lastGet, server>>

\* lines 223-229: ioutil.ReadFile(hashPath), and filePath from what it read
ReadHash(i) ==
    /\ running[i].pc = "readHash"
    /\ running' = Moved(i, "respond",
                        Join(FilesDir, ReadFile(hashes, hashOf(running[i]), "ok")),
                        <<"readHash">>)
    /\ UNCHANGED <<APP_CONFIG, keysFile, files, hashes, now, log, lastCheck, lastGet, server>>

\* line 232, first half: the entry is created, or truncated
CreateHash(i) ==
    /\ running[i].pc = "createHash"
    /\ hashes' = Put(hashes, hashOf(running[i]), "")
    /\ running' = Moved(i, "writeHash", "", <<>>)
    /\ UNCHANGED <<APP_CONFIG, keysFile, files, now, log, lastCheck, lastGet, server>>

\* line 232, second half: uploadedFilename+"\n" is written to the entry
WriteHash(i) ==
    /\ running[i].pc = "writeHash"
    /\ hashes' = Put(hashes, hashOf(running[i]),
                     Overlay(hashes[hashOf(running[i])], uploadedFilename(running[i]) \o LF))
    /\ running' = Moved(i, "createFile", "", <<"writeHash">>)
    /\ UNCHANGED <<APP_CONFIG, keysFile, files, now, log, lastCheck, lastGet, server>>

\* line 238, first half: the file is created, or truncated
CreateFile(i) ==
    /\ running[i].pc = "createFile"
    /\ files' = Put(files, uploadedFilename(running[i]), EmptyBuf)
    /\ running' = Moved(i, "writeFile", "", <<>>)
    /\ UNCHANGED <<APP_CONFIG, keysFile, hashes, now, log, lastCheck, lastGet, server>>

\* line 238, second half: the buffer is written to the file
WriteBytes(i) ==
    /\ running[i].pc = "writeFile"
    /\ files' = Put(files, uploadedFilename(running[i]),
                    OverlayBuf(files[uploadedFilename(running[i])], running[i].req.body))
    /\ running' = Moved(i, "respond", Join(FilesDir, uploadedFilename(running[i])),
                        <<"writeFile">>)
    /\ UNCHANGED <<APP_CONFIG, keysFile, hashes, now, log, lastCheck, lastGet, server>>

\* line 246: the URL is written to the response, and the handler returns
Respond(i) ==
    /\ running[i].pc = "respond"
    /\ log' = Append(log, [req |-> running[i].req, t |-> running[i].t, fault |-> NoFault,
                           resp |-> StorageURL(running[i].path),
                           steps |-> running[i].steps \o <<"respond">>,
                           had |-> running[i].had])
    /\ running' = [j \in DOMAIN running \ {i} |-> running[j]]
    /\ UNCHANGED <<APP_CONFIG, keysFile, files, hashes, now, lastCheck, lastGet, server>>

NextRace ==
    \/ Begin(RaceRequests)
    \/ \E i \in DOMAIN running : Stat(i)
    \/ \E i \in DOMAIN running : ReadHash(i)
    \/ \E i \in DOMAIN running : CreateHash(i)
    \/ \E i \in DOMAIN running : WriteHash(i)
    \/ \E i \in DOMAIN running : CreateFile(i)
    \/ \E i \in DOMAIN running : WriteBytes(i)
    \/ \E i \in DOMAIN running : Respond(i)
    \/ Tick

SpecRace == Init /\ [][NextRace]_vars

(***************************************************************************)
(* The server with public upload, on 19 January 2038: the clock starts at  *)
(* 2^31 - 1 seconds.                                                       *)
(***************************************************************************)
EpochStart == Int64FromNat(2147483647)

\* the wall clock advances by a second, having started at start
TickFrom(start) ==
    /\ \E i \in 0..(MaxTicks - 1) : now = IncN(start, i)
    /\ now' = Inc(now)
    /\ UNCHANGED <<APP_CONFIG, keysFile, files, hashes, log, lastCheck, lastGet, server, running>>

InitEpoch ==
    /\ APP_CONFIG = Config(Int64FromNat(ATAERU_MAX_FILE_SIZE), TRUE)
    /\ keysFile = ""
    /\ files = <<>>
    /\ hashes = <<>>
    /\ now = EpochStart
    /\ log = <<>>
    /\ lastCheck = NoCheck
    /\ lastGet = NoGet
    /\ server \in {Serving(e) : e \in ServerEnvs}
    /\ initializeEnv(server.env).conf = APP_CONFIG
    /\ running = <<>>

NextEpoch ==
    \/ Upload(PublicRequests(StoreBuffers), {NoFault})
    \/ TickFrom(EpochStart)

SpecEpoch == InitEpoch /\ [][NextEpoch]_vars

(***************************************************************************)
(* What the claims speak of.                                               *)
(***************************************************************************)
\* the upload was answered with a storage URL
Accepted(e) == e.resp.kind = "url"

\* the file name in a storage URL: what follows /storage/, up to the line
\* feed that ends the response
URLName(resp) ==
    SubSeq(resp.body, Len("http://localhost:" \o APP_CONFIG.Port \o StoragePrefix) + 1,
           Len(resp.body) - 1)

\* the URL as a client reads it: the first line of the response
URLLine(resp) ==
    SubSeq(resp.body, 1, Min({k \in 1..Len(resp.body) : At(resp.body, k) = LF}) - 1)

\* the file that URL names, and its path on the server
URLFile(resp) ==
    TrimPrefix(URLLine(resp), "http://localhost:" \o APP_CONFIG.Port \o StoragePrefix)

URLPath(resp) == StoragePrefix \o URLFile(resp)

\* the files under files/ that hold the bytes of buf
FilesHolding(buf) == {n \in DOMAIN files : files[n] = buf}

\* the last two requests were accepted uploads of the same bytes
TwiceInARow(i) ==
    /\ i + 1 = Len(log)
    /\ Accepted(log[i])
    /\ Accepted(log[i + 1])
    /\ log[i].req.body = log[i + 1].req.body

\* C1: after two sequential accepted uploads of the same bytes, the first
\* made when no file held them, the store holds exactly one file with those
\* bytes and the entry under hashes/ for them, and the second upload wrote
\* nothing.
C1_DedupStorage ==
    \A i \in 1..(Len(log) - 1) :
        (TwiceInARow(i) /\ ~log[i].had) =>
            /\ Cardinality(FilesHolding(log[i].req.body)) = 1
            /\ getBufferFileHash(log[i].req.body) \in DOMAIN hashes
            /\ ~Did(log[i + 1], "writeHash")
            /\ ~Did(log[i + 1], "writeFile")

\* C2: when the same bytes are uploaded twice in a row, the file name in the
\* second response is exactly the file name in the first response, and is
\* the name of a file under files/.
C2_DedupResponse ==
    \A i \in 1..(Len(log) - 1) :
        TwiceInARow(i) =>
            /\ URLName(log[i + 1].resp) = URLName(log[i].resp)
            /\ URLName(log[i + 1].resp) \in DOMAIN files

\* C3: two accepted uploads of different bytes are answered with different
\* file names, and each named file holds the bytes of its own upload.
C3_DistinctContent ==
    \A i, j \in 1..Len(log) :
        (Accepted(log[i]) /\ Accepted(log[j]) /\ log[i].req.body # log[j].req.body) =>
            /\ URLFile(log[i].resp) # URLFile(log[j].resp)
            /\ URLFile(log[i].resp) \in DOMAIN files
            /\ files[URLFile(log[i].resp)] = log[i].req.body

\* C4: whatever was uploaded since, a GET of the URL an accepted upload was
\* answered with returns the bytes of that upload.
C4_RoundTrip ==
    \A i \in 1..Len(log) :
        Accepted(log[i]) =>
            LET got == ServeStorage(URLPath(log[i].resp))
            IN  got.kind = "file" /\ got.bytes = log[i].req.body

\* a step that appends a request to the log
Handled == Len(log') = Len(log) + 1

\* the lines of a keys file: the stretches between line feeds, the stretch
\* after the last one if it is not empty, each without a carriage return at
\* its end
WithoutCR(s) == IF HasSuffix(s, CR) THEN SubSeq(s, 1, Len(s) - 1) ELSE s

LinesOf(file) ==
    {WithoutCR(SubSeq(file, p[1], p[2])) :
        p \in {q \in (1..Len(file)) \X (0..Len(file)) :
                 /\ q[2] >= q[1] - 1
                 /\ (q[1] = 1 \/ At(file, q[1] - 1) = LF)
                 /\ (q[2] = Len(file) \/ At(file, q[2] + 1) = LF)
                 /\ \A k \in q[1]..q[2] : At(file, k) # LF}}

\* C5: with public upload disabled, a POST whose key is missing, or is no
\* line of the keys file, changes nothing under files/ and hashes/ and is
\* answered with one of the two rejection messages.
C5_KeyGate ==
    [][(/\ Handled
        /\ APP_CONFIG.PublicUpload = FALSE
        /\ LET key == log'[Len(log')].req.key
           IN  key = "" \/ key \notin LinesOf(keysFile))
       => (/\ files' = files
           /\ hashes' = hashes
           /\ log'[Len(log')].resp.kind = "rejected"
           /\ log'[Len(log')].resp.body \in {MsgNoKey, MsgBadKey})]_vars

\* C5 happens: with files stored, one request was turned away for a missing
\* key and one for a key that is no line of the keys file.
C5_Witness ==
    /\ APP_CONFIG.PublicUpload = FALSE
    /\ files # <<>>
    /\ Len(log) = 3
    /\ Accepted(log[1])
    /\ log[2].req.key = "" /\ log[2].resp.body = MsgNoKey
    /\ log[3].req.key = "x" /\ log[3].resp.body = MsgBadKey

\* size > mb * 2^20, over the integers: the size rounded up to whole MB
\* exceeds mb
OverLimit(size, mb) == Greater(Int64FromNat((size + (2 ^ 20) - 1) \div (2 ^ 20)), mb)

\* C6: an upload whose size is over MaxFileSize * 2^20 bytes changes nothing
\* under files/ and hashes/ and is answered with the size message; an upload
\* whose size is not over it is not answered with the size message.
C6_SizeGate ==
    [][(Handled /\ log'[Len(log')].req.hasFile) =>
          LET e == log'[Len(log')]
          IN  IF OverLimit(Size(e.req.body), APP_CONFIG.MaxFileSize)
              THEN files' = files /\ hashes' = hashes /\ e.resp.kind = "toobig"
              ELSE e.resp.kind # "toobig"]_vars

\* C8: a request in which the read of the entry, the write of the entry or
\* the write of the file failed is not answered with a storage URL.
C8_NoLinkOnFailure ==
    \A i \in 1..Len(log) :
        (\/ Did(log[i], "readHash") /\ log[i].fault.hashRead # "ok"
         \/ Did(log[i], "writeHash") /\ log[i].fault.hashWrite # "ok"
         \/ Did(log[i], "writeFile") /\ log[i].fault.fileWrite # "ok")
        => log[i].resp.kind # "url"

\* C9: isUploadKeyValid returns false whenever the keys file cannot be
\* opened or the scan ends with a read error.
C9_FailsClosed ==
    (lastCheck.called /\ lastCheck.fault.keys \in {"open", "read"}) =>
        lastCheck.result = FALSE

\* C10: with a readable keys file, isUploadKeyValid(key) is true exactly when
\* key is a line of the keys file as it is at the call.
C10_Membership ==
    (lastCheck.called /\ lastCheck.fault.keys = "ok") =>
        (lastCheck.result = (lastCheck.key \in LinesOf(keysFile)))

\* C10 happens: a key that was no line of the keys file is one after an
\* edit, and the next call returns true.
C10_Witness ==
    /\ lastCheck.called
    /\ lastCheck.fault.keys = "ok"
    /\ lastCheck.result = TRUE
    /\ lastCheck.was.called
    /\ lastCheck.was.key = lastCheck.key
    /\ lastCheck.was.result = FALSE

\* C7: a GET under /storage/ of a path that ends in a separator is answered
\* not-found without reaching the file server.
C7_NoDirListing ==
    (lastGet.called /\ HasSuffix(lastGet.path, Slash)) =>
        (lastGet.resp.kind = "notfound" /\ ~lastGet.resp.served)

\* the string is a decimal integer: an optional sign, then digits only, at
\* least one
IsDecimal(s) ==
    LET rest == IF HasPrefix(s, "+") \/ HasPrefix(s, "-") THEN Tail(s) ELSE s
    IN  rest # "" /\ \A i \in 1..Len(rest) : IsDigit(At(rest, i))

\* a <= b for two strings of digits of one length
DigitsLeq(a, b) ==
    \/ a = b
    \/ \E i \in 1..Len(a) :
          /\ DigitVal(At(a, i)) < DigitVal(At(b, i))
          /\ SubSeq(a, 1, i - 1) = SubSeq(b, 1, i - 1)

RECURSIVE TrimZeros(_)
TrimZeros(s) == IF Len(s) > 1 /\ Head(s) = "0" THEN TrimZeros(Tail(s)) ELSE s

\* the decimal integer is within int64: -2^63 .. 2^63 - 1
InInt64(s) ==
    LET neg == HasPrefix(s, "-")
        rest == TrimZeros(IF HasPrefix(s, "+") \/ neg THEN Tail(s) ELSE s)
        most == IF neg THEN "9223372036854775808" ELSE "9223372036854775807"
    IN  Len(rest) < Len(most) \/ (Len(rest) = Len(most) /\ DigitsLeq(rest, most))

IsBoolean(s) == s \in {"1", "t", "T", "TRUE", "true", "True", "0", "f", "F", "FALSE", "false", "False"}

\* C11: once main has run initializeEnv, the process is stopped, and serves
\* nothing, whenever ATAERU_MAX_FILE_SIZE is no integer of 64 bits or
\* ATAERU_PUBLIC_UPLOAD is no boolean.
C11_ParseErrorsFatal ==
    (/\ server.state # "off"
     /\ \/ ~(IsDecimal(server.env.size) /\ InInt64(server.env.size))
        \/ ~IsBoolean(server.env.flag))
    => (server.state = "fatal" /\ log = <<>>)

\* C12: the key of a buffer is the hex of a 16-byte digest of the whole
\* buffer: it has 32 characters, and two uploaded buffers that differ, in
\* whatever byte, have different keys.
C12_WholeBufferDigest ==
    \A i, j \in 1..Len(log) :
        (Did(log[i], "statHash") /\ Did(log[j], "statHash")) =>
            /\ Len(getBufferFileHash(log[i].req.body)) = 2 * DigestSize
            /\ (log[i].req.body # log[j].req.body =>
                   getBufferFileHash(log[i].req.body) # getBufferFileHash(log[j].req.body))

\* the file name an entry under hashes/ holds: its first line
EntryName(content) ==
    LET nl == {k \in 1..Len(content) : At(content, k) = LF}
    IN  IF nl = {} THEN content ELSE SubSeq(content, 1, Min(nl) - 1)

\* C13: every entry under hashes/ holds the name of a file that exists
\* under files/, and the key of that file's bytes is the name of the entry.
C13_HashIndex ==
    \A h \in DOMAIN hashes :
        /\ EntryName(hashes[h]) \in DOMAIN files
        /\ getBufferFileHash(files[EntryName(hashes[h])]) = h

\* the stored name the handler generates for a request: its ID and the
\* extension of the client's file name
NewName(e) == Encode(Stamp(e.t)) \o Ext(e.req.filename)

\* C14: an accepted upload whose key has an entry under hashes/ leaves
\* files/ and hashes/ as they are, and the URL it is answered with names
\* the file name the entry holds.
C14_DedupHitWriteFree ==
    [][(/\ Handled
        /\ Accepted(log'[Len(log')])
        /\ getBufferFileHash(log'[Len(log')].req.body) \in DOMAIN hashes)
       => (/\ files' = files
           /\ hashes' = hashes
           /\ URLFile(log'[Len(log')].resp)
                = EntryName(hashes[getBufferFileHash(log'[Len(log')].req.body)]))]_vars

\* C14 happens: an upload found the entry of an earlier one and was answered
\* with the earlier name, which is not the name generated for it.
C14_Witness ==
    /\ Len(log) = 2
    /\ Accepted(log[2])
    /\ Did(log[2], "readHash")
    /\ URLFile(log[2].resp) = NewName(log[1])
    /\ URLFile(log[2].resp) # NewName(log[2])
    /\ DOMAIN files = {NewName(log[1])}

Before(e, first, second) ==
    Did(e, second) => (Did(e, first) /\ Pos(e, first) < Pos(e, second))

\* the steps that read or write hashes/ or files/
StoreSteps == {"statHash", "readHash", "writeHash", "writeFile"}

\* C15: in every POST with public upload disabled, the key check comes
\* first, the size check before any step on hashes/ or files/, the write of
\* the entry before the write of the file, and the URL after a step on the
\* store; a request whose key is missing or no line of the keys file ends
\* with a rejection right after the key check, and one whose file is over
\* the limit ends with the size message right after the size check.
C15_RequestOrder ==
    [][Handled =>
         LET e == log'[Len(log')]
         IN  /\ APP_CONFIG.PublicUpload = FALSE => e.steps[1] = "keyCheck"
             /\ \A s \in StoreSteps : Before(e, "sizeCheck", s)
             /\ Before(e, "writeHash", "writeFile")
             /\ Accepted(e) =>
                    /\ e.steps[Len(e.steps)] = "respond"
                    /\ \E s \in StoreSteps : Did(e, s) /\ Pos(e, s) = Len(e.steps) - 1
             /\ (APP_CONFIG.PublicUpload = FALSE
                  /\ (e.req.key = "" \/ e.req.key \notin LinesOf(keysFile)))
                 => (e.resp.kind = "rejected" /\ e.steps = <<"keyCheck", "respond">>)
             /\ (Did(e, "sizeCheck") /\ OverLimit(Size(e.req.body), APP_CONFIG.MaxFileSize))
                 => (/\ e.resp.kind = "toobig"
                     /\ Pos(e, "sizeCheck") = Len(e.steps) - 1
                     /\ e.steps[Len(e.steps)] = "respond")]_vars

\* C15 happens: one request ended at the key check, one at the size check,
\* and one wrote the entry and then the file before it was answered.
C15_Witness ==
    /\ Len(log) = 3
    /\ log[1].steps = <<"keyCheck", "respond">>
    /\ log[2].resp.kind = "toobig"
    /\ log[3].steps = <<"keyCheck", "formFile", "sizeCheck", "newID", "readBody",
                        "statHash", "writeHash", "writeFile", "respond">>

\* two completed requests of the same content that each found no entry
\* under hashes/ and wrote it
Raced(i, j) ==
    /\ i # j
    /\ log[i].req.body = log[j].req.body
    /\ Did(log[i], "writeHash")
    /\ Did(log[j], "writeHash")

\* C16: when two requests of the same content both found no entry and both
\* wrote an entry and a file, under different stored names, then once they
\* are done files/ holds a file of that content under each of the two names,
\* while hashes/ holds one entry for it, which names the file of one racer.
C16_DedupRace ==
    DOMAIN running = {} =>
        \A i, j \in 1..Len(log) :
            (Raced(i, j) /\ NewName(log[i]) # NewName(log[j])) =>
                /\ {NewName(log[i]), NewName(log[j])} \subseteq FilesHolding(log[i].req.body)
                /\ getBufferFileHash(log[i].req.body) \in DOMAIN hashes
                /\ EntryName(hashes[getBufferFileHash(log[i].req.body)])
                     \in {NewName(log[k]) : k \in {n \in 1..Len(log) : n = i \/ Raced(n, i)}}

\* C16 happens: two concurrent uploads of one content, with different
\* extensions, both wrote; two files hold the content and one entry names
\* the second request's file only.
C16_Witness ==
    /\ DOMAIN running = {}
    /\ Len(log) = 2
    /\ Raced(1, 2)
    /\ ~log[1].had /\ ~log[2].had
    /\ Cardinality(FilesHolding(log[1].req.body)) = 2
    /\ Cardinality(DOMAIN hashes) = 1
    /\ EntryName(hashes[getBufferFileHash(log[1].req.body)]) = NewName(log[2])
    /\ NewName(log[1]) # NewName(log[2])

\* C17: whenever a request is answered with a storage URL, the file the URL
\* names exists under files/ and holds the bytes of that request.
C17_URLNamesWrittenFile ==
    [][(Handled /\ Accepted(log'[Len(log')])) =>
          /\ URLFile(log'[Len(log')].resp) \in DOMAIN files
          /\ files[URLFile(log'[Len(log')].resp)] = log'[Len(log')].req.body]_vars

\* C18: a POST that passes the key gate and has no file field ends the
\* handler normally, with nothing written to the response, and changes
\* nothing under files/ and hashes/.
C18_NoFileEndsNormally ==
    [][(/\ Handled
        /\ ~log'[Len(log')].req.hasFile
        /\ log'[Len(log')].resp.kind # "rejected")
       => (/\ log'[Len(log')].resp = NoResponse
           /\ files' = files
           /\ hashes' = hashes)]_vars

\* the request got as far as making its ID
MadeID(e) == Did(e, "newID")

\* C19: for every request that makes an ID, the second shifted left by 32
\* bits is not negative and ID generation does not fail; and two requests
\* get the same ID exactly when they are handled in the same second.
C19_ShiftedStamp ==
    \A i, j \in 1..Len(log) :
        (MadeID(log[i]) /\ MadeID(log[j])) =>
            /\ ~IsNegative(Stamp(log[i].t))
            /\ log[i].steps[Len(log[i].steps)] # "newID"
            /\ (Encode(Stamp(log[i].t)) = Encode(Stamp(log[j].t))) <=> (log[i].t = log[j].t)

====
